---- MODULE Spec2Model ----
(***************************************************************************)
(* The `user` table declared by class User (app/models.py) and the         *)
(* operations a SQLAlchemy session can run against it on PostgreSQL:       *)
(* transactions of two clients that insert, update and delete User rows,   *)
(* with the constraints, defaults and generated values the column          *)
(* declarations give the table.                                            *)
(***************************************************************************)
EXTENDS Integers, FiniteSets, TLC

\* ------------------------------------------------------------------ bounds
MaxSeq == 2
MaxClock == 2
MaxTxns == 3

\* ------------------------------------------------------------ value domains
Clients == {"c1", "c2"}

\* SQL NULL of a String column / of an Integer or DateTime column
NULL == "NULL"
NullInt == 0 - 1

Emails == {"a@x.com", "b@x.com"}
\* the email an INSERT may give; an UPDATE may assign either of Emails
InsertEmails == {"a@x.com"}
Passwords == {"p1"}
\* the password an UPDATE may assign (a reset)
NewPasswords == {"p2"}
Roles == {"admin"}
\* a timestamp a caller may pass for created_at: earlier than any clock value
SuppliedTimes == {0}
Ids == 1 .. MaxSeq
\* an id a caller may pass instead of taking one from the sequence
SuppliedIds == {1}

\* ------------------------------------------------- the column declarations
\* the id column without its primary key
IdNotKey == FALSE
\* id = Column(Integer, primary_key=True, index=True)
IdPrimaryKey == TRUE
\* the email column declared without unique=True
EmailNotUnique == FALSE
\* email = Column(String, unique=True, index=True)
EmailUnique == TRUE
\* the role column declared without a default
RoleDefaultNone == NULL
\* role = Column(String, default="user")
RoleDefault == "user"

Columns == {"id", "email", "password", "role", "created_at"}

NoRow == [id |-> NullInt, email |-> NULL, password |-> NULL, role |-> NULL,
          created_at |-> NullInt]

\* table           the committed rows of "user"
\* seq             last value the id sequence gave out
\* clock           the storage layer's clock
\* nTxn            number of transactions begun
\* txn             per client, its open transaction: statement, request,
\*                 row replaced (old), tuple formed (row), outcome
\* usedIds         history: the ids of all records ever inserted
\* insertedEmails  history: the emails of all records ever inserted
VARIABLES table, seq, clock, nTxn, txn, usedIds, insertedEmails

vars == <<table, seq, clock, nTxn, txn, usedIds, insertedEmails>>

IdleTxn == [pc |-> "idle", kind |-> "none", col |-> "none",
            start |-> 0, req |-> NoRow, old |-> NoRow,
            row |-> NoRow, err |-> "none"]

Init ==
    /\ table = {}
    /\ seq = 0
    /\ clock = 1
    /\ nTxn = 0
    /\ txn = [c \in Clients |-> IdleTxn]
    /\ usedIds = {}
    /\ insertedEmails = {}

\* ----------------------------------------------------------------- helpers
\* the transaction of client d is open and has executed a statement: its
\* row locks and its new tuple stay in place until it commits or rolls back
Holding(d) == txn[d].pc \in {"waiting", "pending", "failed"}

\* row r carries the lock of an open transaction of a client other than c
\* (that transaction is updating or deleting r)
Locked(r, c) == \E d \in Clients \ {c} : Holding(d) /\ txn[d].old = r

KeyNull(k) == IF k = "id" THEN NullInt ELSE NULL

\* the columns that carry a unique index, and whether the index is declared
Constrained(k) == IF k = "id" THEN IdPrimaryKey ELSE EmailUnique

\* the unique indexes that hold an entry for the uncommitted new tuple of d:
\* the primary key's index is filled first, the email index second, and a
\* statement that fails on an index has not entered its tuple there. (With
\* two clients the transaction another one waits for is never itself
\* waiting, so a waiting transaction's entries are seen by nobody.)
Indexed(d) ==
    IF txn[d].kind \notin {"insert", "update"} THEN {}
    ELSE IF txn[d].pc = "pending" THEN {"id", "email"}
    ELSE IF txn[d].pc = "failed" /\ txn[d].err = "user_email_key" THEN {"id"}
    ELSE {}

\* an index that lets a tuple in without waiting for open transactions
NoWait(c, n, o, k) == FALSE

\* the new tuple n of c (replacing row o, NoRow for an INSERT) has to wait on
\* index k: an open transaction holds an entry with the same key, or is
\* updating or deleting the committed row that has it. NULLs never compare
\* equal, so a NULL key waits for nothing.
WaitOn(c, n, o, k) ==
    /\ Constrained(k)
    /\ n[k] # KeyNull(k)
    /\ \/ \E d \in Clients \ {c} : k \in Indexed(d) /\ txn[d].row[k] = n[k]
       \/ \E r \in table : r # o /\ r[k] = n[k] /\ Locked(r, c)

\* a unique index that treats two NULLs as equal keys
ViolatesNullsEqual(n, o, k) ==
    /\ Constrained(k)
    /\ \E r \in table : r # o /\ r[k] = n[k]

\* the new tuple n duplicates the key k of a committed row other than o
Violates(n, o, k) ==
    /\ Constrained(k)
    /\ n[k] # KeyNull(k)
    /\ \E r \in table : r # o /\ r[k] = n[k]

\* an INSERT or UPDATE that consults the primary key's index only
OutcomeIdOnly(c, n, o) ==
    IF WaitOn(c, n, o, "id") THEN [pc |-> "waiting", err |-> "none"]
    ELSE IF Violates(n, o, "id") THEN [pc |-> "failed", err |-> "user_pkey"]
    ELSE [pc |-> "pending", err |-> "none"]

\* what the unique indexes answer to the new tuple n of c: the statement
\* waits while an open transaction holds the key, fails with a unique
\* violation when a committed row has it, and passes otherwise
Outcome(c, n, o) ==
    IF WaitOn(c, n, o, "id") THEN [pc |-> "waiting", err |-> "none"]
    ELSE IF Violates(n, o, "id") THEN [pc |-> "failed", err |-> "user_pkey"]
    ELSE IF WaitOn(c, n, o, "email") THEN [pc |-> "waiting", err |-> "none"]
    ELSE IF Violates(n, o, "email")
         THEN [pc |-> "failed", err |-> "user_email_key"]
    ELSE [pc |-> "pending", err |-> "none"]

\* a default that takes the clock's time when the statement runs
StatementNow(c) == clock

\* func.now() on PostgreSQL: the start time of the current transaction
ServerNow(c) == txn[c].start

\* a role that ignores what the caller supplied
InsertRoleAlwaysDefault(req) == RoleDefault

\* role of the inserted row: the ORM leaves an unset (None) attribute out of
\* the INSERT and the column's default fills it
InsertRole(req) == IF req.role = NULL THEN RoleDefault ELSE req.role

\* a created_at the caller cannot override
InsertCreatedAtServerOnly(req, c) == ServerNow(c)

\* created_at of the inserted row: server_default applies only when the
\* INSERT carries no value for the column
InsertCreatedAt(req, c) ==
    IF req.created_at = NullInt THEN ServerNow(c) ELSE req.created_at

\* a created_at declared with onupdate=func.now()
UpdateCreatedAtOnUpdate(r, c) == ServerNow(c)

\* created_at of an updated row: the column declares no onupdate
UpdateCreatedAt(r, c) == r.created_at

\* User(...) as a caller can construct it: every column is optional. The
\* requests tried give a password, give an email or none, and give at most
\* one of id, role and created_at.
InsertRequests ==
    {q \in [id : {NullInt} \cup SuppliedIds, email : {NULL} \cup InsertEmails,
            password : Passwords, role : {NULL} \cup Roles,
            created_at : {NullInt} \cup SuppliedTimes] :
        Cardinality({k \in {"id", "role", "created_at"} :
                        q[k] # (IF k = "role" THEN NULL ELSE NullInt)}) <= 1}

\* the values an UPDATE can assign to a column
Assignable(k) ==
    CASE k = "id" -> SuppliedIds \cup {2}
      [] k = "email" -> Emails
      [] k = "password" -> NewPasswords
      [] k = "role" -> Roles
      [] k = "created_at" -> SuppliedTimes

\* ----------------------------------------------------------------- actions
\* the storage layer's clock advances
Tick ==
    /\ clock < MaxClock
    /\ clock' = clock + 1
    /\ UNCHANGED <<table, seq, nTxn, txn, usedIds, insertedEmails>>

\* the session of c opens a transaction (its first statement, e.g. a SELECT)
Begin(c) ==
    /\ txn[c].pc = "idle"
    /\ nTxn < MaxTxns
    /\ nTxn' = nTxn + 1
    /\ txn' = [txn EXCEPT ![c] = [IdleTxn EXCEPT !.pc = "active",
                                                 !.start = clock]]
    /\ UNCHANGED <<table, seq, clock, usedIds, insertedEmails>>

\* the tuple an INSERT of request req by c forms: id from the sequence
\* unless the caller gives one, the column defaults filled in
NewRow(c, req) ==
    [id |-> IF req.id = NullInt THEN seq + 1 ELSE req.id,
     email |-> req.email,
     password |-> req.password,
     role |-> InsertRole(req),
     created_at |-> InsertCreatedAt(req, c)]

\* INSERT INTO "user": the tuple is formed and offered to the unique indexes
Insert(c, req) ==
    /\ txn[c].pc = "active"
    /\ req.id = NullInt => seq < MaxSeq
    /\ seq' = IF req.id = NullInt THEN seq + 1 ELSE seq
    /\ txn' = [txn EXCEPT ![c] =
                 [@ EXCEPT !.pc = Outcome(c, NewRow(c, req), NoRow).pc,
                           !.err = Outcome(c, NewRow(c, req), NoRow).err,
                           !.kind = "insert", !.req = req,
                           !.row = NewRow(c, req)]]
    /\ UNCHANGED <<table, clock, nTxn, usedIds, insertedEmails>>

\* UPDATE "user" SET k = v WHERE id = r.id, on a row no other open
\* transaction has locked (the statement waits for the lock otherwise)
Update(c, r, k, v) ==
    /\ txn[c].pc = "active"
    /\ r \in table
    /\ ~Locked(r, c)
    /\ r[k] # v
    /\ LET new == [[r EXCEPT ![k] = v]
                     EXCEPT !.created_at = IF k = "created_at" THEN v
                                           ELSE UpdateCreatedAt(r, c)]
           out == Outcome(c, new, r)
       IN txn' = [txn EXCEPT ![c] =
                    [@ EXCEPT !.pc = out.pc, !.err = out.err,
                              !.kind = "update", !.col = k, !.old = r,
                              !.row = new]]
    /\ UNCHANGED <<table, seq, clock, nTxn, usedIds, insertedEmails>>

\* DELETE FROM "user" WHERE id = r.id
Delete(c, r) ==
    /\ txn[c].pc = "active"
    /\ r \in table
    /\ ~Locked(r, c)
    /\ txn' = [txn EXCEPT ![c] =
                 [@ EXCEPT !.pc = "pending", !.kind = "delete", !.old = r]]
    /\ UNCHANGED <<table, seq, clock, nTxn, usedIds, insertedEmails>>

\* a statement that waited on a unique index goes on once the transaction it
\* waited for has ended
Resume(c) ==
    /\ txn[c].pc = "waiting"
    /\ LET out == Outcome(c, txn[c].row, txn[c].old)
       IN /\ out.pc # "waiting"
          /\ txn' = [txn EXCEPT ![c] = [@ EXCEPT !.pc = out.pc,
                                                 !.err = out.err]]
    /\ UNCHANGED <<table, seq, clock, nTxn, usedIds, insertedEmails>>

\* COMMIT: the statement's effect becomes the persisted state
Commit(c) ==
    /\ txn[c].pc = "pending"
    /\ table' = CASE txn[c].kind = "insert" -> table \cup {txn[c].row}
                  [] txn[c].kind = "update" ->
                        (table \ {txn[c].old}) \cup {txn[c].row}
                  [] txn[c].kind = "delete" -> table \ {txn[c].old}
    /\ usedIds' = IF txn[c].kind = "insert" THEN usedIds \cup {txn[c].row.id}
                  ELSE usedIds
    /\ insertedEmails' = IF txn[c].kind = "insert"
                         THEN insertedEmails \cup ({txn[c].row.email} \ {NULL})
                         ELSE insertedEmails
    /\ txn' = [txn EXCEPT ![c] = IdleTxn]
    /\ UNCHANGED <<seq, clock, nTxn>>

\* ROLLBACK, by the caller's choice or after a failed statement: nothing of
\* the transaction is persisted (the sequence keeps the values it gave out)
Rollback(c) ==
    /\ txn[c].pc \in {"waiting", "pending", "failed"}
    /\ txn' = [txn EXCEPT ![c] = IdleTxn]
    /\ UNCHANGED <<table, seq, clock, nTxn, usedIds, insertedEmails>>

Next ==
    \/ Tick
    \/ \E c \in Clients : Begin(c)
    \/ \E c \in Clients, req \in InsertRequests : Insert(c, req)
    \/ \E c \in Clients, r \in table, k \in Columns :
          \E v \in Assignable(k) : Update(c, r, k, v)
    \/ \E c \in Clients, r \in table : Delete(c, r)
    \/ \E c \in Clients : Resume(c)
    \/ \E c \in Clients : Commit(c)
    \/ \E c \in Clients : Rollback(c)

Spec == Init /\ [][Next]_vars

TypeOK ==
    /\ seq \in 0 .. MaxSeq
    /\ clock \in 1 .. MaxClock
    /\ nTxn \in 0 .. MaxTxns
    /\ usedIds \subseteq Ids \cup SuppliedIds
    /\ insertedEmails \subseteq Emails
    /\ \A c \in Clients :
          txn[c].pc \in {"idle", "active", "waiting", "pending", "failed"}

\* ------------------------------------------------------ steps of interest
\* this step is the COMMIT of c's transaction, whose statement was of kind kd
Committing(c, kd) ==
    /\ txn[c].pc = "pending"
    /\ txn[c].kind = kd
    /\ txn'[c].pc = "idle"
    /\ table' # table

\* this step is c's INSERT statement: its tuple is formed
InsertStep(c) ==
    /\ txn[c].pc = "active"
    /\ txn'[c].kind = "insert"

\* in this step the unique indexes answer c's INSERT (pass or fail)
ResolvesInsert(c) ==
    /\ txn[c].pc \in {"active", "waiting"}
    /\ txn'[c].kind = "insert"
    /\ txn'[c].pc \in {"pending", "failed"}

\* c has an INSERT under way that carries email e
OpenInsert(c, e) ==
    /\ txn[c].pc \in {"waiting", "pending"}
    /\ txn[c].kind = "insert"
    /\ txn[c].row.email = e

UniqueErrors == {"user_pkey", "user_email_key"}

\* ------------------------------------------------------------------ claims
\* C1: after any sequence of insertions, updates and deletions, committed or
\* failed, no two records of the table have the same email value (an absent
\* email, NULL, is no value)
C1_EmailUnique ==
    \A r1, r2 \in table :
        (r1 # r2 /\ r1.email # NULL) => r1.email # r2.email

\* an UPDATE that would give a second record the email of a persisted one
\* was insertedEmails and rejected
C1_Witness ==
    \E c \in Clients, r \in table :
        /\ txn[c].pc = "failed"
        /\ txn[c].kind = "update"
        /\ txn[c].err = "user_email_key"
        /\ txn[c].row.email = r.email

\* C2, as stated: of any two insertion attempts with the same email value the
\* second fails with a uniqueness-constraint error and leaves the set of
\* persisted records as it was (taken in its weakest sense: the first of the
\* two attempts was committed)
C2_SecondAttemptFails ==
    [][\A c \in Clients :
         (ResolvesInsert(c) /\ txn'[c].row.email \in insertedEmails)
            => /\ txn'[c].pc = "failed"
               /\ txn'[c].err \in UniqueErrors
               /\ table' = table]_vars

\* C2, amended: an insertion attempt whose email is that of a record persisted
\* at that moment fails with a uniqueness-constraint error, persists nothing
\* and can only be rolled back
C2_DuplicateInsertFails ==
    [][\A c \in Clients :
         /\ ( /\ ResolvesInsert(c)
              /\ \E r \in table : /\ r.email # NULL
                                  /\ r.email = txn'[c].row.email )
               => /\ txn'[c].pc = "failed"
                  /\ txn'[c].err \in UniqueErrors
                  /\ table' = table
         /\ txn[c].pc = "failed"
               => /\ txn'[c].pc \in {"failed", "idle"}
                  /\ txn'[c].pc = "idle" => table' = table]_vars

\* an INSERT with the email of a persisted record has failed on the email index
C2_Witness ==
    \E c \in Clients, r \in table :
        /\ txn[c].pc = "failed"
        /\ txn[c].kind = "insert"
        /\ txn[c].err = "user_email_key"
        /\ txn[c].row.email = r.email

\* C3: of two INSERTs with the same email that are under way at the same time
\* at most one is past the email index; when that one commits the other is
\* still waiting behind it and what it then gets is the unique violation
C3_ConcurrentInsertsSerialized ==
    /\ [](\A c, d \in Clients :
            (c # d /\ txn[c].row.email # NULL
                   /\ OpenInsert(c, txn[c].row.email)
                   /\ OpenInsert(d, txn[c].row.email))
               => ~(txn[c].pc = "pending" /\ txn[d].pc = "pending"))
    /\ [][\A c, d \in Clients :
            (c # d /\ txn[c].row.email # NULL
                   /\ Committing(c, "insert")
                   /\ OpenInsert(d, txn[c].row.email))
               => /\ txn[d].pc = "waiting"
                  /\ txn'[d].pc = "waiting"
                  /\ Outcome(d, txn[d].row, NoRow)'.pc = "failed"
                  /\ Outcome(d, txn[d].row, NoRow)'.err \in UniqueErrors]_vars

\* two transactions have begun, both INSERTs of one email under way at the
\* same time: the winner has committed its record, the loser, a different
\* record with the same email, has been waiting behind it
C3_Witness ==
    /\ nTxn = 2
    /\ \E d \in Clients, r \in table :
          /\ table = {r}
          /\ r.email # NULL
          /\ OpenInsert(d, r.email)
          /\ txn[d].pc = "waiting"
          /\ txn[d].row.id # r.id

\* C4: a committed insertion that supplied no role persists the record with
\* role "user"
C4_RoleDefaultsToUser ==
    [][\A c \in Clients :
         (Committing(c, "insert") /\ txn[c].req.role = NULL)
            => \E r \in table' \ table :
                  r.id = txn[c].row.id /\ r.role = "user"]_vars

\* the only transaction so far was an insertion and left a record with the
\* default role
C4_Witness ==
    /\ nTxn = 1
    /\ \E r \in table : r.role = "user"

\* C5, as stated: created_at of an inserted record is the storage engine's
\* time at the moment of commit, and never the value the caller supplied
C5_CreatedAtIsCommitTime ==
    [][\A c \in Clients :
         Committing(c, "insert")
            => \E r \in table' \ table :
                  /\ r.created_at = clock
                  /\ txn[c].req.created_at # NullInt
                        => r.created_at # txn[c].req.created_at]_vars

\* C5, amended: an insertion that supplies no created_at persists the value of
\* the storage engine's current-time function, the start time of the inserting
\* transaction; an insertion that supplies one persists the supplied value
C5_CreatedAtDefaultOrSupplied ==
    [][\A c \in Clients :
         Committing(c, "insert")
            => \E r \in table' \ table :
                  /\ r.id = txn[c].row.id
                  /\ r.created_at = IF txn[c].req.created_at = NullInt
                                    THEN txn[c].start
                                    ELSE txn[c].req.created_at]_vars

\* the only transaction so far inserted a record with the created_at its
\* caller supplied
C5_Witness ==
    /\ nTxn = 1
    /\ \E r \in table : r.created_at \in SuppliedTimes

\* C6, as stated: created_at of an inserted record is non-null and at or
\* after the moment the insertion was issued (the tuple the INSERT forms is
\* the record COMMIT persists)
C6_CreatedAtNotBeforeRequest ==
    [][\A c \in Clients :
         InsertStep(c)
            => /\ txn'[c].row.created_at # NullInt
               /\ txn'[c].row.created_at >= clock]_vars

\* C6, amended: created_at of a record inserted without a supplied created_at
\* is non-null and is the storage clock's time at the start of the inserting
\* transaction, at or before the moment the insertion was issued
C6_CreatedAtIsTransactionStart ==
    [][\A c \in Clients :
         /\ (InsertStep(c) /\ txn'[c].req.created_at = NullInt)
               => /\ txn'[c].row.created_at # NullInt
                  /\ txn'[c].row.created_at = txn[c].start
                  /\ txn'[c].row.created_at <= clock
         /\ (Committing(c, "insert") /\ txn[c].req.created_at = NullInt)
               => \E r \in table' \ table :
                     /\ r = txn[c].row
                     /\ r.created_at # NullInt
                     /\ r.created_at = txn[c].start]_vars

\* the only transaction so far inserted a record whose created_at the storage
\* engine set, and the clock has moved on since the transaction began
C6_Witness ==
    /\ nTxn = 1
    /\ \E r \in table : r.created_at # NullInt /\ r.created_at >= 1
                                               /\ r.created_at < clock

\* C7, as stated: no two records ever inserted, deleted ones included, were
\* assigned the same id
C7_IdNeverReused ==
    [][\A c \in Clients :
         Committing(c, "insert") => txn[c].row.id \notin usedIds]_vars

\* C7, amended: no two records persisted at the same time have the same id,
\* every persisted record has a non-null id, and the sequence never gives out
\* an id twice (each value it gives is above every earlier one)
C7_IdUnique ==
    /\ [](\A r1, r2 \in table :
            /\ r1.id # NullInt
            /\ r1 # r2 => r1.id # r2.id)
    /\ [][/\ seq' >= seq
          /\ \A c \in Clients :
               (InsertStep(c) /\ txn'[c].req.id = NullInt)
                  => /\ txn'[c].row.id = seq'
                     /\ seq' > seq]_vars

\* a record was inserted and deleted, another is persisted, and a further
\* insertion has been refused the id of the persisted one
C7_Witness ==
    /\ \E i \in usedIds : \A r \in table : r.id # i
    /\ \E c \in Clients, r \in table :
          /\ txn[c].pc = "failed"
          /\ txn[c].err = "user_pkey"
          /\ txn[c].row.id = r.id

\* C8, as stated: every mutation of a record leaves its id and its created_at
\* as they were
C8_IdAndCreatedAtImmutable ==
    [][\A c \in Clients :
         Committing(c, "update")
            => \E r \in table' \ table :
                  /\ r.id = txn[c].old.id
                  /\ r.created_at = txn[c].old.created_at]_vars

\* C8, amended: every mutation of a record that does not itself assign id or
\* created_at (a role change, a password reset, an email change) leaves both
\* as they were
C8_IdAndCreatedAtKept ==
    [][\A c \in Clients :
         (Committing(c, "update") /\ txn[c].col \notin {"id", "created_at"})
            => /\ txn[c].old \notin table'
               /\ \E r \in table' \ table :
                     /\ r.id = txn[c].old.id
                     /\ r.created_at = txn[c].old.created_at
                     /\ r[txn[c].col] # txn[c].old[txn[c].col]]_vars

\* a password reset was committed on a record whose created_at the storage
\* engine had set at an earlier time
C8_Witness ==
    \E r \in table :
        /\ r.password \in NewPasswords
        /\ r.created_at # NullInt
        /\ r.created_at >= 1
        /\ r.created_at < clock

\* C9: a committed insertion that supplied a role persists the record with
\* the supplied role, whatever it is
C9_SuppliedRoleKept ==
    [][\A c \in Clients :
         (Committing(c, "insert") /\ txn[c].req.role # NULL)
            => \E r \in table' \ table :
                  r.id = txn[c].row.id /\ r.role = txn[c].req.role]_vars

\* the only transaction so far inserted a record with the role "admin"
C9_Witness ==
    /\ nTxn = 1
    /\ \E r \in table : r.role = "admin"

\* C10: an insertion that supplies no email forms a record with a NULL email
\* and the email index never rejects it, whatever the table holds: if it
\* fails at all, it fails on the primary key
C10_EmailOptional ==
    \A c \in Clients :
        (txn[c].kind = "insert" /\ txn[c].req.email = NULL)
           => /\ txn[c].row.email = NULL
              /\ txn[c].err # "user_email_key"
              /\ txn[c].pc = "failed" => txn[c].err = "user_pkey"

\* two records without an email are persisted side by side
C10_Witness ==
    \E r1, r2 \in table :
        r1 # r2 /\ r1.email = NULL /\ r2.email = NULL

====
